---- MODULE Spec2Model ----
(***************************************************************************)
(* Model of the per-profile model lifecycle manager of maxidom             *)
(* (backend/app/utils.py, UserModelManager) and of the request handlers    *)
(* of backend/app/api.py that drive it.                                    *)
(*                                                                         *)
(* A profile owns two CSV pools (features.csv, retraining_pool.csv), and   *)
(* for each model type a package file model_<type>.joblib together with    *)
(* the temporary file model_<type>.joblib.tmp the package is dumped to.    *)
(* Training and retraining run as background tasks, one step per file      *)
(* system operation, so that they interleave with each other and with the  *)
(* requests.                                                               *)
(***************************************************************************)
EXTENDS Integers, Sequences, FiniteSets, TLC

VARIABLES primary, retraining, model, temp, tasks, scorer, lastDiv, response, users, calib,
          appends, extraction

vars == <<primary, retraining, model, temp, tasks, scorer, lastDiv, response, users, calib, appends, extraction>>

(***************************************************************************)
(* Bounds of the model.                                                    *)
(***************************************************************************)
MaxAppend == 2
MaxTasks == 2
MaxRuns == 1
MaxRetrainAppend == 1
MaxOutliers == 3
MaxAppenders == 2

(***************************************************************************)
(* Program constants.                                                      *)
(***************************************************************************)
min_samples_for_training == 300
min_keyboard_samples == 50
min_mouse_samples == 150
min_digraph_samples == 30
MinSpecialistSamples == 20
retraining_threshold == 500

Profiles == {"p1", "p2"}

ModelTypes == {"mouse", "typing", "mixed"}

\* the order in which train_initial_model and retrain_model train
TrainOrder == <<"mouse", "typing", "mixed">>

TaskIds == 1..MaxTasks

\* decision_function values of a vector, as small integers around the thresholds
Scores == {-1, 1}

(***************************************************************************)
(* A sample record keeps, of the feature vector, the sign of the three     *)
(* columns the manager reads by name: 1 stands for a value > 0, 0 for 0.0. *)
(***************************************************************************)
Rec(m, t, d) == [avg_mouse_speed |-> m, typing_speed_kps |-> t, avg_flight_time_digraph |-> d]

MouseOnly == Rec(1, 0, 0)
TypingOnly == Rec(0, 1, 0)
TypingDigraph == Rec(0, 1, 1)
Both == Rec(1, 1, 0)
Idle == Rec(0, 0, 0)

RecKinds == {MouseOnly, TypingOnly, TypingDigraph, Both, Idle}

(***************************************************************************)
(* The data rows of a CSV file, in file order, run-length encoded: a run   *)
(* is n consecutive rows of the same record kind.                          *)
(***************************************************************************)
Run(r, n) == [rec |-> r, n |-> n]

RECURSIVE SumRuns(_, _)
SumRuns(rows, col) ==
  IF rows = <<>> THEN 0
  ELSE (IF col = "" \/ Head(rows).rec[col] > 0 THEN Head(rows).n ELSE 0) + SumRuns(Tail(rows), col)

\* len(df)
Len_df(rows) == SumRuns(rows, "")

\* len(df[df[col] > 0])
CountPositive(rows, col) == SumRuns(rows, col)

RECURSIVE CountWhere(_, _, _)
CountWhere(rows, m, t) ==
  IF rows = <<>> THEN 0
  ELSE (IF Head(rows).rec.avg_mouse_speed = m /\ Head(rows).rec.typing_speed_kps = t
        THEN Head(rows).n ELSE 0) + CountWhere(Tail(rows), m, t)

\* writer.writerow on a file opened in append mode: one more row at the end
AppendRow(rows, r) ==
  IF rows # <<>> /\ rows[Len(rows)].rec = r
  THEN [rows EXCEPT ![Len(rows)] = Run(r, @.n + 1)]
  ELSE Append(rows, Run(r, 1))

\* pd.concat([original_df, retraining_df])
ConcatRows(a, b) ==
  IF a # <<>> /\ b # <<>> /\ a[Len(a)].rec = Head(b).rec
  THEN SubSeq(a, 1, Len(a) - 1) \o <<Run(Head(b).rec, a[Len(a)].n + Head(b).n)>> \o Tail(b)
  ELSE a \o b

\* the primary pools the model starts from: one row short of the diversity gate
NearReady == <<Run(MouseOnly, 199), Run(TypingOnly, 50), Run(TypingDigraph, 30), Run(Both, 20)>>

NearReadyFewMixed == <<Run(MouseOnly, 199), Run(TypingDigraph, 90), Run(Both, 10)>>

NearReadyNoMouseOnly == <<Run(Both, 250), Run(TypingDigraph, 49)>>

PresetRows == Len_df(NearReady)

\* a retraining pool one row short of retraining_threshold
NearThreshold == <<Run(MouseOnly, retraining_threshold - 1)>>

(***************************************************************************)
(* A pool file: whether it exists, its header lines and its data rows.     *)
(***************************************************************************)
NoPool == [exists |-> FALSE, hdr |-> 0, rows |-> <<>>]

HeaderOnly == [exists |-> TRUE, hdr |-> 1, rows |-> <<>>]

\* _count_samples counting the header line as a sample
_count_samples_lines(file) ==
  IF ~file.exists THEN 0
  ELSE file.hdr + Len_df(file.rows)

\* UserModelManager._count_samples
_count_samples(file) ==
  IF ~file.exists THEN 0
  ELSE LET lines == file.hdr + Len_df(file.rows)
       IN IF lines - 1 > 0 THEN lines - 1 ELSE 0

\* save_features opening the file with mode 'w'
save_features_overwrite(file, r) ==
  [exists |-> TRUE, hdr |-> 1, rows |-> <<Run(r, 1)>>]

\* the file UserModelManager.save_features leaves behind
save_features_file(file, r) ==
  [exists |-> TRUE,
   hdr |-> IF file.exists THEN file.hdr ELSE 1,
   rows |-> AppendRow(file.rows, r)]

\* UserModelManager.save_features: the value it returns
save_features(file, r) == _count_samples(save_features_file(file, r))

(***************************************************************************)
(* UserModelManager.check_diversity                                        *)
(***************************************************************************)
is_ready(total, keyboard, mouse, digraphs) ==
  /\ total >= min_samples_for_training
  /\ keyboard >= min_keyboard_samples
  /\ mouse >= min_mouse_samples
  /\ digraphs >= min_digraph_samples

\* check_diversity counting as keyboard the rows train_initial_model calls typing-only
check_diversity_typing_only(file) ==
  IF ~file.exists
  THEN [total |-> 0, keyboard |-> 0, mouse |-> 0, is_ready |-> FALSE]
  ELSE LET total == Len_df(file.rows)
           keyboard == CountWhere(file.rows, 0, 1)
           mouse == CountPositive(file.rows, "avg_mouse_speed")
           digraphs == CountPositive(file.rows, "avg_flight_time_digraph")
       IN [total |-> total, keyboard |-> keyboard, mouse |-> mouse, digraphs |-> digraphs,
           is_ready |-> is_ready(total, keyboard, mouse, digraphs)]

check_diversity(file) ==
  IF ~file.exists
  THEN [total |-> 0, keyboard |-> 0, mouse |-> 0, is_ready |-> FALSE]
  ELSE LET total == Len_df(file.rows)
           keyboard == CountPositive(file.rows, "typing_speed_kps")
           mouse == CountPositive(file.rows, "avg_mouse_speed")
           digraphs == CountPositive(file.rows, "avg_flight_time_digraph")
       IN [total |-> total, keyboard |-> keyboard, mouse |-> mouse, digraphs |-> digraphs,
           is_ready |-> is_ready(total, keyboard, mouse, digraphs)]

(***************************************************************************)
(* A package file (model_<type>.joblib or its .tmp): st is "none" when the *)
(* path does not exist, "partial" while a dump has opened it and not       *)
(* finished, "full" when it holds a whole pickled package, "corrupt" when  *)
(* two dumps wrote into it.  gen names the task that wrote it, thr is the  *)
(* package's threshold, n the number of rows it was fitted on and cols the *)
(* list of column names the detector was fitted on.                        *)
(***************************************************************************)
NoFile == [st |-> "none", gen |-> 0, thr |-> 0, n |-> 0, cols |-> "none"]

\* the feature_subset train_initial_model and retrain_model pass to
\* _train_and_save_specialist next to each model_type
SpecialistSubset(model_type) ==
  CASE model_type = "mouse" -> "mouse_features"
    [] model_type = "typing" -> "typing_features"
    [] model_type = "mixed" -> "all_feature_names"

NoPackages == [mt \in ModelTypes |-> NoFile]

\* Path.exists()
Exists(f) == f.st # "none"

(***************************************************************************)
(* A background task running train_initial_model or retrain_model.         *)
(* pc is the next step, i the index in TrainOrder of the specialist being  *)
(* trained, n the sizes of the three subsets of the data frame it read,    *)
(* loc the path its open temporary file   *)
(* is now known by, wrote the packages it has replaced so far, cleared     *)
(* whether it truncated the retraining pool, result its return value, exc  *)
(* what made it return False.                                              *)
(***************************************************************************)
NoSubsets == [mt \in ModelTypes |-> 0]

IdleTask ==
  [kind |-> "none", pc |-> "idle", i |-> 0, n |-> NoSubsets, loc |-> "none",
   wrote |-> {}, cleared |-> FALSE, result |-> "none", exc |-> "none"]

NewTask(kind) == [IdleTask EXCEPT !.kind = kind, !.pc = "read"]

\* the three data frames train_initial_model and retrain_model cut out of df
Partition(rows) ==
  [mt \in ModelTypes |->
     CASE mt = "mouse" -> CountWhere(rows, 1, 0)
       [] mt = "typing" -> CountWhere(rows, 0, 1)
       [] mt = "mixed" -> CountWhere(rows, 1, 1)]

FreeTasks(p) == {t \in TaskIds : tasks[p][t].kind = "none"}

\* no background task is between its start and its return
AllDone(p) == \A t \in TaskIds : tasks[p][t].pc \in {"idle", "done"}

\* the background tasks handed over so far
Scheduled(p) == TaskIds \ FreeTasks(p)

\* the handler running the head of the task itself instead of handing it over
add_task_started(p, kind) ==
  LET t == CHOOSE x \in FreeTasks(p) : \A y \in FreeTasks(p) : x <= y
  IN [tasks EXCEPT ![p][t] =
        [NewTask(kind) EXCEPT !.pc = "fit", !.i = 1, !.n = Partition(primary[p].rows)]]

\* background_tasks.add_task: the task takes the next unused task id
add_task(p, kind) ==
  LET t == CHOOSE x \in FreeTasks(p) : \A y \in FreeTasks(p) : x <= y
  IN [tasks EXCEPT ![p][t] = NewTask(kind)]

\* return value and end of the task
Finish(task, res) ==
  [task EXCEPT !.pc = "done", !.result = res, !.i = 0, !.n = NoSubsets, !.loc = "none",
               !.wrote = {}]

\* return False: the early return, or the except clause after exception exc
Fail(task, exc) == [Finish(task, "False") EXCEPT !.exc = exc]

\* _train_and_save_specialist returned: the next specialist, or the end of the try block
Advance(task) ==
  IF task.i < Len(TrainOrder)
  THEN [task EXCEPT !.pc = "fit", !.i = @ + 1, !.loc = "none"]
  ELSE IF task.kind = "retrain"
       THEN [task EXCEPT !.pc = "trunc", !.i = 0, !.n = NoSubsets, !.loc = "none"]
       ELSE Finish(task, "True")

(***************************************************************************)
(* Steps of a background task t of profile p.                              *)
(***************************************************************************)
CurrentType(task) == TrainOrder[task.i]

\* retrain_model emptying the retraining pool as soon as it has read it
TaskReadAndClear(p, t) ==
  LET task == tasks[p][t]
      missing == IF task.kind = "train" THEN ~primary[p].exists
                 ELSE ~primary[p].exists \/ ~retraining[p].exists
      df == IF task.kind = "train" THEN primary[p].rows
            ELSE ConcatRows(primary[p].rows, retraining[p].rows)
  IN /\ task.pc = "read"
     /\ tasks' = [tasks EXCEPT ![p][t] =
                    IF missing THEN Fail(task, "missing")
                    ELSE [task EXCEPT !.pc = "fit", !.i = 1, !.n = Partition(df)]]
     /\ retraining' = IF ~missing /\ task.kind = "retrain"
                      THEN [retraining EXCEPT ![p] = HeaderOnly] ELSE retraining
     /\ UNCHANGED <<primary, model, temp, scorer, lastDiv, response, users, calib, appends, extraction>>

\* train_initial_model / retrain_model up to the partition of the data frame
TaskRead(p, t) ==
  LET task == tasks[p][t]
      missing == IF task.kind = "train" THEN ~primary[p].exists
                 ELSE ~primary[p].exists \/ ~retraining[p].exists
      df == IF task.kind = "train" THEN primary[p].rows
            ELSE ConcatRows(primary[p].rows, retraining[p].rows)
  IN /\ task.pc = "read"
     /\ tasks' = [tasks EXCEPT ![p][t] =
                    IF missing THEN Fail(task, "missing")
                    ELSE [task EXCEPT !.pc = "fit", !.i = 1, !.n = Partition(df)]]
     /\ UNCHANGED <<primary, retraining, model, temp, scorer, lastDiv, response, users, calib, appends, extraction>>

\* model.fit, decision_function and np.percentile: with random_state fixed the
\* threshold is a function of the subset; the model keeps one bit of it
Calibrate(n) == n % 2

\* _train_and_save_specialist fitting a forest without a fixed random_state:
\* the threshold depends on the run as well as on the subset
TaskFit_unseeded(p, t) ==
  LET task == tasks[p][t]
      mt == CurrentType(task)
  IN /\ task.pc = "fit"
     /\ \/ /\ task.n[mt] < MinSpecialistSamples
           /\ tasks' = [tasks EXCEPT ![p][t] = Advance(task)]
           /\ UNCHANGED temp
        \/ /\ task.n[mt] >= MinSpecialistSamples
           /\ temp' = [temp EXCEPT ![p][mt] =
                         [st |-> "partial", gen |-> t, thr |-> Calibrate(task.n[mt] + t),
                          n |-> task.n[mt], cols |-> SpecialistSubset(mt)]]
           /\ tasks' = [tasks EXCEPT ![p][t] = [task EXCEPT !.pc = "write", !.loc = "temp"]]
        \/ /\ task.n[mt] >= MinSpecialistSamples
           /\ tasks' = [tasks EXCEPT ![p][t] = Fail(task, "fit")]
           /\ UNCHANGED temp
     /\ UNCHANGED <<primary, retraining, model, scorer, lastDiv, response, users, calib, appends, extraction>>

\* _train_and_save_specialist up to the opening of the temporary file: the
\* size test, the fit and the calibration, then joblib.dump opens the
\* temporary path for writing, which creates or truncates it
TaskFit(p, t) ==
  LET task == tasks[p][t]
      mt == CurrentType(task)
  IN /\ task.pc = "fit"
     /\ \/ /\ task.n[mt] < MinSpecialistSamples
           /\ tasks' = [tasks EXCEPT ![p][t] = Advance(task)]
           /\ UNCHANGED temp
        \/ /\ task.n[mt] >= MinSpecialistSamples
           /\ temp' = [temp EXCEPT ![p][mt] =
                         [st |-> "partial", gen |-> t, thr |-> Calibrate(task.n[mt]),
                          n |-> task.n[mt], cols |-> SpecialistSubset(mt)]]
           /\ tasks' = [tasks EXCEPT ![p][t] = [task EXCEPT !.pc = "write", !.loc = "temp"]]
        \/ /\ task.n[mt] >= MinSpecialistSamples
           /\ tasks' = [tasks EXCEPT ![p][t] = Fail(task, "fit")]
           /\ UNCHANGED temp
     /\ UNCHANGED <<primary, retraining, model, scorer, lastDiv, response, users, calib, appends, extraction>>

\* what the end of a dump by task t makes of the file f it has open
Dumped(f, t) ==
  IF f.gen = t
  THEN {[f EXCEPT !.st = IF @ = "partial" THEN "full" ELSE @]}
  ELSE {f, [f EXCEPT !.st = "corrupt"]}

\* joblib.dump writes the rest of the pickle and closes the file
TaskWrite(p, t) ==
  LET task == tasks[p][t]
      mt == CurrentType(task)
  IN /\ task.pc = "write"
     /\ tasks' = [tasks EXCEPT ![p][t] = [task EXCEPT !.pc = "rename", !.loc = "none"]]
     /\ CASE task.loc = "temp" ->
               /\ \E f \in Dumped(temp[p][mt], t) : temp' = [temp EXCEPT ![p][mt] = f]
               /\ UNCHANGED model
          [] task.loc = "model" ->
               /\ \E f \in Dumped(model[p][mt], t) : model' = [model EXCEPT ![p][mt] = f]
               /\ UNCHANGED temp
          [] OTHER -> UNCHANGED <<model, temp>>
     /\ UNCHANGED <<primary, retraining, scorer, lastDiv, response, users, calib, appends, extraction>>

\* joblib.dump raises before the pickle is complete
TaskInterrupt(p, t) ==
  LET task == tasks[p][t]
  IN /\ task.pc = "write"
     /\ tasks' = [tasks EXCEPT ![p][t] = Fail(task, "dump")]
     /\ UNCHANGED <<primary, retraining, model, temp, scorer, lastDiv, response, users, calib, appends, extraction>>

\* the open files of the other tasks follow the rename of the path
Renamed(p, t, mt) ==
  [u \in TaskIds |->
     LET other == tasks[p][u]
     IN IF u # t /\ other.pc = "write" /\ CurrentType(other) = mt
        THEN [other EXCEPT !.loc = IF @ = "temp" THEN "model" ELSE "gone"]
        ELSE other]

\* temp_model_path.rename(model_path)
TaskRename(p, t) ==
  LET task == tasks[p][t]
      mt == CurrentType(task)
  IN /\ task.pc = "rename"
     /\ IF ~Exists(temp[p][mt])
        THEN /\ tasks' = [tasks EXCEPT ![p][t] = Fail(task, "FileNotFoundError")]
             /\ UNCHANGED <<model, temp>>
        ELSE /\ model' = [model EXCEPT ![p][mt] = temp[p][mt]]
             /\ temp' = [temp EXCEPT ![p][mt] = NoFile]
             /\ tasks' = [tasks EXCEPT ![p] =
                            [Renamed(p, t, mt) EXCEPT ![t] =
                               Advance([task EXCEPT !.wrote = @ \cup {mt}])]]
     /\ UNCHANGED <<primary, retraining, scorer, lastDiv, response, users, calib, appends, extraction>>

\* retrain_model moving the rows of the retraining pool into the primary pool
\* when it empties the retraining pool
TaskTrunc_merging(p, t) ==
  LET task == tasks[p][t]
  IN /\ task.pc = "trunc"
     /\ primary' = [primary EXCEPT ![p].rows = ConcatRows(@, retraining[p].rows)]
     /\ retraining' = [retraining EXCEPT ![p] = HeaderOnly]
     /\ tasks' = [tasks EXCEPT ![p][t] = Finish([task EXCEPT !.cleared = TRUE], "True")]
     /\ UNCHANGED <<model, temp, scorer, lastDiv, response, users, calib, appends, extraction>>

\* retrain_model: retraining_file.write_text(header), return True
TaskTrunc(p, t) ==
  LET task == tasks[p][t]
  IN /\ task.pc = "trunc"
     /\ retraining' = [retraining EXCEPT ![p] = HeaderOnly]
     /\ tasks' = [tasks EXCEPT ![p][t] = Finish([task EXCEPT !.cleared = TRUE], "True")]
     /\ UNCHANGED <<primary, model, temp, scorer, lastDiv, response, users, calib, appends, extraction>>

\* the steps of train_initial_model
TrainStep(p, t) ==
  \/ TaskRead(p, t)
  \/ TaskFit(p, t)
  \/ TaskWrite(p, t)
  \/ TaskInterrupt(p, t)
  \/ TaskRename(p, t)

\* the steps of either kind of task
TaskStep(p, t) ==
  \/ TrainStep(p, t)
  \/ TaskTrunc(p, t)

(***************************************************************************)
(* Requests.  response[p] is the last HTTP response a request for profile  *)
(* p got: its status code and, for a training sample, the progress in its  *)
(* body.  users is the users table of the credential database.             *)
(***************************************************************************)
NoResponse == [code |-> 0, progress |-> [is_ready |-> FALSE]]

\* return {"status": "profiling_in_progress", ..., "progress": diversity_status}
Accepted(diversity_status) == [code |-> 200, progress |-> diversity_status]

\* raise HTTPException(status_code=500, ...)
InternalError == [code |-> 500, progress |-> [is_ready |-> FALSE]]

\* response.status_code = status.HTTP_204_NO_CONTENT
NoContent == [code |-> 204, progress |-> [is_ready |-> FALSE]]

\* return {"status": "enrollment successful", ...}
Enrolled == [code |-> 200, progress |-> [is_ready |-> FALSE]]

\* raise HTTPException(status_code=409, ...)
Conflict == [code |-> 409, progress |-> [is_ready |-> FALSE]]

\* no row of the users table has this profile_id
NoUser == "none"

\* rows a pool has received on top of the rows it started with
Appended(file) == Len_df(file.rows) % PresetRows

\* train_user_data scheduling the training of any profile without a model
SchedulesTraining_ungated(p, r) == ~Exists(model[p]["mouse"])

\* train_user_data: whether the request hands train_initial_model to the
\* background tasks
SchedulesTraining(p, r) ==
  LET diversity_status == check_diversity(save_features_file(primary[p], r))
      model_exists == Exists(model[p]["mouse"])
  IN diversity_status.is_ready /\ ~model_exists

\* train_user_data with a user directory that does not depend on the profile
train_user_data_shared_dir(p, r) ==
  LET file == save_features_file(primary[p], r)
      diversity_status == check_diversity(file)
      schedule == SchedulesTraining(p, r)
  IN /\ schedule => FreeTasks(p) # {}
     /\ primary' = [q \in Profiles |-> file]
     /\ tasks' = IF schedule THEN add_task(p, "train") ELSE tasks
     /\ lastDiv' = [lastDiv EXCEPT ![p] = diversity_status]
     /\ response' = [response EXCEPT ![p] = Accepted(diversity_status)]
     /\ UNCHANGED <<retraining, model, temp, scorer, users, calib, appends, extraction>>

\* POST /api/train/{profile_id}: train_user_data
train_user_data(p, r) ==
  LET file == save_features_file(primary[p], r)
      diversity_status == check_diversity(file)
      schedule == SchedulesTraining(p, r)
  IN /\ schedule => FreeTasks(p) # {}
     /\ primary' = [primary EXCEPT ![p] = file]
     /\ tasks' = IF schedule THEN add_task(p, "train") ELSE tasks
     /\ lastDiv' = [lastDiv EXCEPT ![p] = diversity_status]
     /\ response' = [response EXCEPT ![p] = Accepted(diversity_status)]
     /\ UNCHANGED <<retraining, model, temp, scorer, users, calib, appends, extraction>>

\* train_user_data swallowing the exception of save_features
train_user_data_swallowed(p, r) ==
  /\ response' = [response EXCEPT ![p] = Accepted(check_diversity(primary[p]))]
  /\ UNCHANGED <<primary, retraining, model, temp, tasks, scorer, lastDiv, users, calib, appends, extraction>>

\* train_user_data when save_features raises OSError: open() failed and the
\* file is as before, or the write failed after the header of a new file
\* went out; the except clause answers 500 and nothing is scheduled
train_user_data_OSError(p, r) ==
  /\ \/ UNCHANGED primary
     \/ /\ ~primary[p].exists
        /\ primary' = [primary EXCEPT ![p] = HeaderOnly]
  /\ response' = [response EXCEPT ![p] = InternalError]
  /\ UNCHANGED <<retraining, model, temp, tasks, scorer, lastDiv, users, calib, appends, extraction>>

\* score_user_data storing the sample as a retraining sample before it has
\* a verdict for it
score_user_data_pooling(p) ==
  /\ retraining' = [retraining EXCEPT ![p] = save_features_file(@, MouseOnly)]
  /\ response' = [response EXCEPT ![p] = InternalError]
  /\ UNCHANGED <<primary, model, temp, tasks, scorer, lastDiv, users, calib, appends, extraction>>

\* POST /api/score/{profile_id}: score_user_data calls score with key_count
\* and mouse_count, which UserModelManager.score does not take; the
\* TypeError reaches the last except clause
score_user_data(p) ==
  /\ response' = [response EXCEPT ![p] = InternalError]
  /\ UNCHANGED <<primary, retraining, model, temp, tasks, scorer, lastDiv, users, calib, appends, extraction>>

\* rows a retraining pool has received on top of NearThreshold
AppendedRetraining(file) == Len_df(file.rows) % Len_df(NearThreshold)

\* check_diversity opening features.csv in a mode that creates it
evaluate_creating(p) ==
  /\ lastDiv' = [lastDiv EXCEPT ![p] = check_diversity(primary[p])]
  /\ primary' = [primary EXCEPT ![p] = IF @.exists THEN @ ELSE HeaderOnly]
  /\ UNCHANGED <<retraining, model, temp, tasks, scorer, response, users, calib, appends, extraction>>

\* check_diversity called on its own
evaluate(p) ==
  /\ lastDiv' = [lastDiv EXCEPT ![p] = check_diversity(primary[p])]
  /\ UNCHANGED <<primary, retraining, model, temp, tasks, scorer, response, users, calib, appends, extraction>>

\* save_features(profile_id, vector, is_retraining_sample=True)
append_retraining(p, r) ==
  /\ retraining' = [retraining EXCEPT ![p] = save_features_file(retraining[p], r)]
  /\ UNCHANGED <<primary, model, temp, tasks, scorer, lastDiv, response, users, calib, appends, extraction>>

\* retrain_model handed to the background tasks
start_retrain(p) ==
  /\ FreeTasks(p) # {}
  /\ tasks' = add_task(p, "retrain")
  /\ UNCHANGED <<primary, retraining, model, temp, scorer, lastDiv, response, users, calib, appends, extraction>>

\* UserModelManager.delete_user_data: the user directory is removed
delete_user_data(p) ==
  /\ primary' = [primary EXCEPT ![p] = NoPool]
  /\ retraining' = [retraining EXCEPT ![p] = NoPool]
  /\ model' = [model EXCEPT ![p] = NoPackages]
  /\ temp' = [temp EXCEPT ![p] = NoPackages]
  /\ tasks' = [tasks EXCEPT ![p] =
                 [u \in TaskIds |-> IF tasks[p][u].pc = "write"
                                    THEN [tasks[p][u] EXCEPT !.loc = "gone"]
                                    ELSE tasks[p][u]]]
  /\ UNCHANGED <<scorer, lastDiv, users, calib, appends, extraction>>

\* DELETE /api/reset_profile/{profile_id}: reset_biometric_profile
reset_biometric_profile(p) ==
  /\ delete_user_data(p)
  /\ response' = [response EXCEPT ![p] = NoContent]

\* the hashes get_password_hash gives for the passwords of the requests
Hashes == {"h1", "h2"}

\* a save_user_hash written with INSERT OR REPLACE: the row of the profile
\* takes the new hash and the statement always changes one row
save_user_hash_replacing(stored, password_hash) ==
  LET total_changes == 1
  IN [stored |-> password_hash, ret |-> total_changes > 0]

\* save_user_hash: INSERT OR IGNORE leaves the row of a profile_id that has
\* one (profile_id is the primary key) and changes no row then; the commit
\* follows and the call returns conn.total_changes > 0.  stored is the
\* password_hash of the profile's row before the call, NoUser without a row
save_user_hash(stored, password_hash) ==
  LET total_changes == IF stored = NoUser THEN 1 ELSE 0
  IN [stored |-> IF stored = NoUser THEN password_hash ELSE stored,
      ret |-> total_changes > 0]

\* POST /api/enroll/{profile_id}: enroll_user with a password in the body
enroll_user(p, password_hash) ==
  LET saved == save_user_hash(users[p], password_hash)
      success == saved.ret
  IN /\ users' = [users EXCEPT ![p] = saved.stored]
     /\ response' = [response EXCEPT ![p] = IF success THEN Enrolled ELSE Conflict]
     /\ UNCHANGED <<primary, retraining, model, temp, tasks, scorer, lastDiv, calib, appends, extraction>>

(***************************************************************************)
(* UserModelManager.score, one step per file system operation.             *)
(* v is the vector's record kind and s[mt] the value decision_function of  *)
(* the mt specialist gives for it; pk keeps the packages that were on disk *)
(* when the call began.                                                    *)
(***************************************************************************)
NoResult ==
  [kind |-> "none", is_anomaly |-> FALSE, score |-> 0, model_used |-> "none", threshold |-> 0,
   gen |-> 0, columns |-> "none", fitted |-> "none"]

IdleScorer ==
  [pc |-> "idle", v |-> Idle, s |-> [mt \in ModelTypes |-> 1], mt |-> "none",
   feature_subset |-> "none", pk |-> NoPackages, res |-> NoResult]

Raised(exc) == [NoResult EXCEPT !.kind = exc]

\* the routing at the head of score
Route(v) ==
  LET is_mouse_active == v.avg_mouse_speed > 0
      is_typing_active == v.typing_speed_kps > 0
  IN IF is_mouse_active /\ ~is_typing_active THEN "mouse"
     ELSE IF ~is_mouse_active /\ is_typing_active THEN "typing"
     ELSE "mixed"

\* the feature_subset score picks next to the model_type it routes to
RoutedSubset(v) ==
  LET is_mouse_active == v.avg_mouse_speed > 0
      is_typing_active == v.typing_speed_kps > 0
  IN IF is_mouse_active /\ ~is_typing_active THEN "mouse_features"
     ELSE IF ~is_mouse_active /\ is_typing_active THEN "typing_features"
     ELSE "all_feature_names"

\* score < dynamic_threshold
IsAnomaly(score, dynamic_threshold) == score < dynamic_threshold

\* the dictionary score returns for the package f of type mt; columns are
\* the columns of score_features, passed to the detector of f, and fitted
\* the columns that detector was fitted on
Verdict(sc, mt, f) ==
  [kind |-> "verdict", is_anomaly |-> IsAnomaly(sc.s[mt], f.thr), score |-> sc.s[mt],
   model_used |-> mt, threshold |-> f.thr, gen |-> f.gen, columns |-> sc.feature_subset,
   fitted |-> f.cols]

\* a vector with fewer values than all_feature_names has columns: the values
\* it has, and no value (not above 0) in the columns it lacks
Short ==
  [avg_mouse_speed |-> 1, typing_speed_kps |-> 0, avg_flight_time_digraph |-> 0,
   cells |-> "short"]

\* len(feature_vector) != len(self.all_feature_names)
WrongLength(v) == "cells" \in DOMAIN v

\* pd.DataFrame([feature_vector], columns=self.all_feature_names) raises
\* ValueError when the vector has not one value per column; otherwise the
\* vector is routed
ScoreBegin(p, v, s) ==
  /\ scorer[p].pc = "idle"
  /\ scorer' = [scorer EXCEPT ![p] =
                  IF WrongLength(v)
                  THEN [IdleScorer EXCEPT !.pc = "done", !.v = v, !.s = s, !.pk = model[p],
                                          !.res = Raised("ValueError")]
                  ELSE [IdleScorer EXCEPT !.pc = "check", !.v = v, !.s = s,
                                          !.mt = Route(v),
                                          !.feature_subset = RoutedSubset(v),
                                          !.pk = model[p]]]
  /\ UNCHANGED <<primary, retraining, model, temp, tasks, lastDiv, response, users, calib, appends, extraction>>

\* a fallback that loads the mixed package and keeps the feature_subset of
\* the routing
ScoreCheck_keeping(p) ==
  LET sc == scorer[p]
  IN /\ sc.pc = "check"
     /\ scorer' = [scorer EXCEPT ![p] =
                     IF Exists(model[p][sc.mt])
                     THEN [sc EXCEPT !.pc = "load"]
                     ELSE [sc EXCEPT !.pc = "check2", !.mt = "mixed"]]
     /\ UNCHANGED <<primary, retraining, model, temp, tasks, lastDiv, response, users, calib, appends, extraction>>

\* load_model_package(profile_id, model_type): model_path.exists(); when the
\* package is missing the fallback sets model_type and feature_subset
ScoreCheck(p) ==
  LET sc == scorer[p]
  IN /\ sc.pc = "check"
     /\ scorer' = [scorer EXCEPT ![p] =
                     IF Exists(model[p][sc.mt])
                     THEN [sc EXCEPT !.pc = "load"]
                     ELSE [sc EXCEPT !.pc = "check2", !.mt = "mixed",
                                     !.feature_subset = "all_feature_names"]]
     /\ UNCHANGED <<primary, retraining, model, temp, tasks, lastDiv, response, users, calib, appends, extraction>>

\* load_model_package(profile_id, "mixed") of the fallback: model_path.exists()
ScoreCheck2(p) ==
  LET sc == scorer[p]
  IN /\ sc.pc = "check2"
     /\ scorer' = [scorer EXCEPT ![p] =
                     IF Exists(model[p]["mixed"])
                     THEN [sc EXCEPT !.pc = "load"]
                     ELSE [sc EXCEPT !.pc = "done", !.res = Raised("ValueError")]]
     /\ UNCHANGED <<primary, retraining, model, temp, tasks, lastDiv, response, users, calib, appends, extraction>>

\* score storing the vector in the retraining pool itself when the verdict
\* is not an anomaly
ScoreLoad_pooling(p) ==
  LET sc == scorer[p]
      f == model[p][sc.mt]
      res == CASE f.st = "none" -> Raised("FileNotFoundError")
               [] f.st = "full" -> Verdict(sc, sc.mt, f)
               [] OTHER -> Raised("UnpicklingError")
  IN /\ sc.pc = "load"
     /\ scorer' = [scorer EXCEPT ![p] = [sc EXCEPT !.pc = "done", !.res = res]]
     /\ retraining' = IF res.kind = "verdict" /\ ~res.is_anomaly
                      THEN [retraining EXCEPT ![p] = save_features_file(@, sc.v)]
                      ELSE retraining
     /\ UNCHANGED <<primary, model, temp, tasks, lastDiv, response, users, calib, appends, extraction>>

\* joblib.load(model_path) and the rest of score
ScoreLoad(p) ==
  LET sc == scorer[p]
      f == model[p][sc.mt]
  IN /\ sc.pc = "load"
     /\ scorer' = [scorer EXCEPT ![p] =
                     [sc EXCEPT !.pc = "done",
                                !.res = CASE f.st = "none" -> Raised("FileNotFoundError")
                                          [] f.st = "full" -> Verdict(sc, sc.mt, f)
                                          [] OTHER -> Raised("UnpicklingError")]]
     /\ UNCHANGED <<primary, retraining, model, temp, tasks, lastDiv, response, users, calib, appends, extraction>>

\* the caller has the result or the exception
ScoreEnd(p) ==
  /\ scorer[p].pc = "done"
  /\ scorer' = [scorer EXCEPT ![p] = IdleScorer]
  /\ UNCHANGED <<primary, retraining, model, temp, tasks, lastDiv, response, users, calib, appends, extraction>>

ScoreStep(p) ==
  \/ ScoreCheck(p)
  \/ ScoreCheck2(p)
  \/ ScoreLoad(p)
  \/ ScoreEnd(p)

(***************************************************************************)
(* UserModelManager.save_features on the primary pool, one step per file   *)
(* system operation, for calls that run side by side in the threads of the *)
(* request handlers.  appends[a] is call a: the profile and the vector it  *)
(* was given, what features_file.exists() told it, and what it returned.   *)
(***************************************************************************)
AppendIds == 1..MaxAppenders

IdleAppend == [pc |-> "idle", p |-> "p1", r |-> Idle, file_exists |-> FALSE, ret |-> 0]

\* file_exists = features_file.exists()
save_features_exists(a, p, r) ==
  /\ appends[a].pc = "idle"
  /\ appends' = [appends EXCEPT ![a] = [IdleAppend EXCEPT !.pc = "open", !.p = p, !.r = r,
                                                          !.file_exists = primary[p].exists]]
  /\ UNCHANGED <<primary, retraining, model, temp, tasks, scorer, lastDiv, response, users,
                 calib, extraction>>

\* the with block: open(features_file, mode='a') creates the file if it is
\* not there, the header goes out if file_exists was False, then the row
save_features_write(a) ==
  LET call == appends[a]
      file == primary[call.p]
  IN /\ call.pc = "open"
     /\ primary' = [primary EXCEPT ![call.p] =
                      [exists |-> TRUE,
                       hdr |-> file.hdr + (IF call.file_exists THEN 0 ELSE 1),
                       rows |-> AppendRow(file.rows, call.r)]]
     /\ appends' = [appends EXCEPT ![a].pc = "count"]
     /\ UNCHANGED <<retraining, model, temp, tasks, scorer, lastDiv, response, users, calib, extraction>>

\* return self._count_samples(features_file)
save_features_return(a) ==
  LET call == appends[a]
  IN /\ call.pc = "count"
     /\ appends' = [appends EXCEPT ![a] = [call EXCEPT !.pc = "done",
                                                       !.ret = _count_samples(primary[call.p])]]
     /\ UNCHANGED <<primary, retraining, model, temp, tasks, scorer, lastDiv, response, users,
                    calib, extraction>>

(***************************************************************************)
(* FeatureExtractor.extract_features and the column names the manager      *)
(* uses.  A payload says which events the session holds: mousePaths is     *)
(* "none", "single" (paths of one point, which the extractor passes over)  *)
(* or "moves"; digraphs tells whether the key events hold a common         *)
(* digraph.  A value of the vector is 1 where the session can give a value *)
(* above 0 and 0 where the extractor puts 0.0.                             *)
(***************************************************************************)
\* the names of the values of feature_vector, in the order of the array
ExtractorSchema ==
  <<"avg_mouse_speed", "std_mouse_speed", "avg_mouse_acceleration", "std_mouse_acceleration",
    "path_straightness", "avg_click_duration", "double_click_rate", "avg_dwell_time",
    "std_dwell_time", "avg_flight_time_digraph", "std_flight_time_digraph",
    "avg_scroll_magnitude", "scroll_burstiness", "avg_time_between_scrolls",
    "scroll_direction_ratio", "window_focus_blur_rate",
    "mouse_movement_to_interaction_ratio">>

mouse_features ==
  {"avg_mouse_speed", "std_mouse_speed", "avg_mouse_acceleration", "std_mouse_acceleration",
   "path_straightness", "avg_click_duration", "avg_pause_duration", "pause_frequency",
   "avg_turn_angle", "avg_stroke_velocity"}

typing_features ==
  {"avg_dwell_time_alpha", "avg_flight_time_digraph", "std_flight_time_digraph",
   "typing_speed_kps"}

keyboard_activity_col == "typing_speed_kps"

mouse_activity_col == "avg_mouse_speed"

digraph_activity_col == "avg_flight_time_digraph"

\* every column name UserModelManager reads from a data frame
ManagerNames ==
  mouse_features \cup typing_features
    \cup {keyboard_activity_col, mouse_activity_col, digraph_activity_col}

Payloads ==
  {pl \in [mousePaths : {"none", "single", "moves"}, clicks : BOOLEAN, keyEvents : BOOLEAN,
           digraphs : BOOLEAN, scrollEvents : BOOLEAN, focusChanges : BOOLEAN] :
     pl.digraphs => pl.keyEvents}

NoPayload ==
  [mousePaths |-> "none", clicks |-> FALSE, keyEvents |-> FALSE, digraphs |-> FALSE,
   scrollEvents |-> FALSE, focusChanges |-> FALSE]

NoExtraction == [pc |-> "none", payload |-> NoPayload, feature_vector |-> <<>>]

\* FeatureExtractor.extract_features: the array it returns
extract_features(payload) ==
  LET m == IF payload.mousePaths = "moves" THEN 1 ELSE 0
      c == IF payload.clicks THEN 1 ELSE 0
      k == IF payload.keyEvents THEN 1 ELSE 0
      d == IF payload.digraphs THEN 1 ELSE 0
      s == IF payload.scrollEvents THEN 1 ELSE 0
      f == IF payload.focusChanges THEN 1 ELSE 0
      ratio == IF m = 1 /\ (payload.clicks \/ payload.keyEvents) THEN 1 ELSE 0
  IN <<m, m, m, m, m, c, c, k, k, d, d, s, s, s, s, f, ratio>>

\* feature_vector = feature_extractor.extract_features(payload_dict)
Extract ==
  /\ extraction.pc = "payload"
  /\ extraction' = [extraction EXCEPT !.pc = "done",
                                      !.feature_vector = extract_features(extraction.payload)]
  /\ UNCHANGED <<primary, retraining, model, temp, tasks, scorer, lastDiv, response, users,
                 calib, appends>>

(***************************************************************************)
(* The calibration of one specialist.  calib.scores are the values         *)
(* decision_function gave for the training rows, in ascending order and    *)
(* run-length encoded (v the score, n the number of rows that have it);    *)
(* calib.threshold is 100 times the threshold, which keeps the linear      *)
(* interpolation of np.percentile in the integers.                         *)
(***************************************************************************)
THRESHOLD_PERCENTILE == 5

NoCalibration == [pc |-> "none", scores |-> <<>>, threshold |-> 0]

ScoreRun(v, n) == [v |-> v, n |-> n]

\* len(scores)
RECURSIVE CountScores(_)
CountScores(scores) ==
  IF scores = <<>> THEN 0 ELSE Head(scores).n + CountScores(Tail(scores))

\* the element at index k (from 0) of the sorted scores
RECURSIVE ScoreAt(_, _)
ScoreAt(scores, k) ==
  IF k < Head(scores).n THEN Head(scores).v ELSE ScoreAt(Tail(scores), k - Head(scores).n)

\* np.percentile taking the percentile from the upper end of the scores
percentile_upper(scores, q) ==
  LET n == CountScores(scores)
      lo == ((n - 1) * (100 - q)) \div 100
      rem == ((n - 1) * (100 - q)) % 100
      hi == IF lo + 1 < n THEN lo + 1 ELSE lo
  IN 100 * ScoreAt(scores, lo) + rem * (ScoreAt(scores, hi) - ScoreAt(scores, lo))

\* 100 * np.percentile(scores, q): the value at the virtual index
\* (n - 1) * q / 100 of the sorted scores, interpolated linearly between the
\* two elements next to it
percentile(scores, q) ==
  LET n == CountScores(scores)
      lo == ((n - 1) * q) \div 100
      rem == ((n - 1) * q) % 100
      hi == IF lo + 1 < n THEN lo + 1 ELSE lo
  IN 100 * ScoreAt(scores, lo) + rem * (ScoreAt(scores, hi) - ScoreAt(scores, lo))

\* the training rows score < threshold holds for
RECURSIVE CountBelow(_, _)
CountBelow(scores, threshold) ==
  IF scores = <<>> THEN 0
  ELSE (IF 100 * Head(scores).v < threshold THEN Head(scores).n ELSE 0)
         + CountBelow(Tail(scores), threshold)

\* _train_and_save_specialist from the size test to the threshold
CalibrateThreshold ==
  /\ calib.pc = "scores"
  /\ calib' = IF CountScores(calib.scores) < MinSpecialistSamples
              THEN [calib EXCEPT !.pc = "skipped"]
              ELSE [calib EXCEPT !.pc = "done",
                                 !.threshold = percentile(calib.scores, THRESHOLD_PERCENTILE)]
  /\ UNCHANGED <<primary, retraining, model, temp, tasks, scorer, lastDiv, response, users,
                 appends, extraction>>

(***************************************************************************)
(* The initial states: nothing stored yet, or a primary pool one row short *)
(* of the diversity gate and no package.                                   *)
(***************************************************************************)
Pool(rows) == [exists |-> TRUE, hdr |-> 1, rows |-> rows]

Presets == {NoPool, Pool(NearReady), Pool(NearReadyFewMixed), Pool(NearReadyNoMouseOnly)}

InitWith(pools) ==
  /\ primary \in [Profiles -> pools \cup {NoPool}]
  /\ primary["p2"] = NoPool
  /\ primary["p1"] \in pools
  /\ retraining = [p \in Profiles |-> NoPool]
  /\ model = [p \in Profiles |-> NoPackages]
  /\ temp = [p \in Profiles |-> NoPackages]
  /\ tasks = [p \in Profiles |-> [t \in TaskIds |-> IdleTask]]
  /\ scorer = [p \in Profiles |-> IdleScorer]
  /\ lastDiv = [p \in Profiles |-> check_diversity(NoPool)]
  /\ response = [p \in Profiles |-> NoResponse]
  /\ users = [p \in Profiles |-> NoUser]
  /\ calib = NoCalibration
  /\ appends = [a \in AppendIds |-> IdleAppend]
  /\ extraction = NoExtraction

(***************************************************************************)
(* Spec: training and retraining tasks of one profile next to the requests *)
(* that start them.                                                        *)
(***************************************************************************)
Init == InitWith({Pool(NearReady), Pool(NearReadyFewMixed)})

Next ==
  \/ /\ Appended(primary["p1"]) < MaxAppend
     /\ SchedulesTraining("p1", MouseOnly) => Cardinality(Scheduled("p1")) < MaxRuns
     /\ train_user_data("p1", MouseOnly)
  \/ /\ Appended(retraining["p1"]) < MaxRetrainAppend
     /\ append_retraining("p1", TypingOnly)
  \/ /\ Cardinality(Scheduled("p1")) < MaxRuns
     /\ start_retrain("p1")
  \/ reset_biometric_profile("p1")
  \/ \E t \in TaskIds : TaskStep("p1", t)

Spec == Init /\ [][Next]_vars

(***************************************************************************)
(* SpecPool: the sample store and the diversity gate under submissions of  *)
(* every record kind.                                                      *)
(***************************************************************************)
InitPool == InitWith(Presets)

NextPool ==
  \/ \E r \in RecKinds :
       /\ Appended(primary["p1"]) < MaxAppend
       /\ train_user_data("p1", r)
  \/ \E r \in RecKinds :
       /\ Appended(retraining["p1"]) < MaxRetrainAppend
       /\ append_retraining("p1", r)
  \/ evaluate("p1")
  \/ \E r \in RecKinds : train_user_data_OSError("p1", r)

SpecPool == InitPool /\ [][NextPool]_vars

(***************************************************************************)
(* SpecScore: score requests against the packages initial training leaves. *)
(* A request is scored while no task runs, so that the packages it finds   *)
(* are those of pk.                                                        *)
(***************************************************************************)
ScoreKinds == {MouseOnly, TypingOnly, Both, Idle}

InitScore == InitWith(Presets \ {NoPool})

NextScore ==
  \/ /\ Appended(primary["p1"]) < MaxAppend
     /\ scorer["p1"].pc = "idle"
     /\ SchedulesTraining("p1", MouseOnly) => Cardinality(Scheduled("p1")) < MaxRuns
     /\ train_user_data("p1", MouseOnly)
  \/ \E t \in TaskIds : TrainStep("p1", t)
  \/ \E v \in ScoreKinds, s \in [ModelTypes -> Scores] :
       /\ AllDone("p1")
       /\ ScoreBegin("p1", v, s)
  \/ ScoreStep("p1")

SpecScore == InitScore /\ [][NextScore]_vars

(***************************************************************************)
(* SpecPkg: a profile after its initial training (mouse and typing         *)
(* packages written, too few mixed rows), retraining tasks and a score     *)
(* request running side by side.                                           *)
(***************************************************************************)
TrainedRows == AppendRow(NearReadyFewMixed, MouseOnly)

TrainedPackage(mt) ==
  LET n == Partition(TrainedRows)[mt]
  IN IF n < MinSpecialistSamples THEN NoFile
     ELSE [st |-> "full", gen |-> 0, thr |-> Calibrate(n), n |-> n,
           cols |-> SpecialistSubset(mt)]

InitPkg ==
  /\ primary = [p \in Profiles |-> IF p = "p1" THEN Pool(TrainedRows) ELSE NoPool]
  /\ retraining = [p \in Profiles |-> NoPool]
  /\ model = [p \in Profiles |-> IF p = "p1" THEN [mt \in ModelTypes |-> TrainedPackage(mt)]
                                 ELSE NoPackages]
  /\ temp = [p \in Profiles |-> NoPackages]
  /\ tasks = [p \in Profiles |-> [t \in TaskIds |-> IdleTask]]
  /\ scorer = [p \in Profiles |-> IdleScorer]
  /\ lastDiv = [p \in Profiles |-> IF p = "p1" THEN check_diversity(Pool(TrainedRows))
                                   ELSE check_diversity(NoPool)]
  /\ response = [p \in Profiles |-> NoResponse]
  /\ users = [p \in Profiles |-> NoUser]
  /\ calib = NoCalibration
  /\ appends = [a \in AppendIds |-> IdleAppend]
  /\ extraction = NoExtraction

NextPkg ==
  \/ /\ Appended(retraining["p1"]) < MaxRetrainAppend
     /\ append_retraining("p1", MouseOnly)
  \/ start_retrain("p1")
  \/ \E t \in TaskIds : TaskStep("p1", t)
  \/ ScoreBegin("p1", MouseOnly, [mt \in ModelTypes |-> 1])
  \/ ScoreCheck("p1")
  \/ ScoreLoad("p1")
  \/ ScoreEnd("p1")

SpecPkg == InitPkg /\ [][NextPkg]_vars

(***************************************************************************)
(* SpecTrain: initial training next to resets and failing submissions, so  *)
(* that a task finds the primary pool missing or without records, and a    *)
(* retraining pool that reaches retraining_threshold.  A task is started   *)
(* when the earlier tasks of the profile have returned.                    *)
(***************************************************************************)
InitTrain ==
  /\ primary = [p \in Profiles |-> IF p = "p1" THEN Pool(NearReady) ELSE NoPool]
  /\ retraining \in [Profiles -> {NoPool, Pool(NearThreshold)}]
  /\ retraining["p2"] = NoPool
  /\ model = [p \in Profiles |-> NoPackages]
  /\ temp = [p \in Profiles |-> NoPackages]
  /\ tasks = [p \in Profiles |-> [t \in TaskIds |-> IdleTask]]
  /\ scorer = [p \in Profiles |-> IdleScorer]
  /\ lastDiv = [p \in Profiles |-> check_diversity(primary[p])]
  /\ response = [p \in Profiles |-> NoResponse]
  /\ users = [p \in Profiles |-> NoUser]
  /\ calib = NoCalibration
  /\ appends = [a \in AppendIds |-> IdleAppend]
  /\ extraction = NoExtraction

NextTrain ==
  \/ /\ Appended(primary["p1"]) < MaxAppend
     /\ SchedulesTraining("p1", MouseOnly) =>
          (AllDone("p1") /\ Cardinality(Scheduled("p1")) < MaxRuns)
     /\ train_user_data("p1", MouseOnly)
  \/ train_user_data_OSError("p1", MouseOnly)
  \/ score_user_data("p1")
  \/ /\ AppendedRetraining(retraining["p1"]) < MaxRetrainAppend
     /\ append_retraining("p1", MouseOnly)
  \/ /\ AllDone("p1")
     /\ Cardinality(Scheduled("p1")) < MaxRuns
     /\ start_retrain("p1")
  \/ reset_biometric_profile("p1")
  \/ \E t \in TaskIds : TaskStep("p1", t)

SpecTrain == InitTrain /\ [][NextTrain]_vars

(***************************************************************************)
(* SpecProfiles: two profiles side by side.  p1 is one row short of the    *)
(* diversity gate and goes through training, retraining and reset; p2 has  *)
(* been trained and is enrolled, evaluated, scored and reset.  A task is   *)
(* started when the earlier tasks of the profile have returned.            *)
(***************************************************************************)
InitProfiles ==
  /\ primary = [p \in Profiles |-> IF p = "p1" THEN Pool(NearReady) ELSE Pool(TrainedRows)]
  /\ retraining = [p \in Profiles |-> Pool(<<Run(MouseOnly, 1)>>)]
  /\ model = [p \in Profiles |-> IF p = "p1" THEN NoPackages
                                 ELSE [mt \in ModelTypes |-> TrainedPackage(mt)]]
  /\ temp = [p \in Profiles |-> NoPackages]
  /\ tasks = [p \in Profiles |-> [t \in TaskIds |-> IdleTask]]
  /\ scorer = [p \in Profiles |-> IdleScorer]
  /\ lastDiv = [p \in Profiles |-> check_diversity(primary[p])]
  /\ response = [p \in Profiles |-> NoResponse]
  /\ users = [p \in Profiles |-> NoUser]
  /\ calib = NoCalibration
  /\ appends = [a \in AppendIds |-> IdleAppend]
  /\ extraction = NoExtraction

NextProfiles ==
  \/ /\ Appended(primary["p1"]) < MaxRuns
     /\ SchedulesTraining("p1", MouseOnly) =>
          (AllDone("p1") /\ Cardinality(Scheduled("p1")) < MaxRuns)
     /\ train_user_data("p1", MouseOnly)
  \/ evaluate("p2")
  \/ \E p \in Profiles : reset_biometric_profile(p)
  \/ enroll_user("p2", "h1")
  \/ /\ AllDone("p1")
     /\ Cardinality(Scheduled("p1")) < MaxRuns
     /\ start_retrain("p1")
  \/ \E t \in TaskIds : TaskStep("p1", t)
  \/ /\ scorer["p2"].pc = "idle"
     /\ ScoreBegin("p2", MouseOnly, [mt \in ModelTypes |-> 1])
  \/ ScoreStep("p2")

SpecProfiles == InitProfiles /\ [][NextProfiles]_vars

(***************************************************************************)
(* SpecRace: training samples arriving while the training they scheduled   *)
(* is still running.  Every request that finds the pool ready and no       *)
(* model_mouse.joblib hands over one more task, and the tasks of the       *)
(* thread pool run side by side.                                           *)
(***************************************************************************)
InitRace == InitWith({Pool(NearReady), Pool(NearReadyFewMixed)})

NextRace ==
  \/ /\ Appended(primary["p1"]) < MaxAppend
     /\ train_user_data("p1", MouseOnly)
  \/ \E t \in TaskIds : TrainStep("p1", t)

SpecRace == InitRace /\ [][NextRace]_vars

(***************************************************************************)
(* SpecData: the requests of a profile that is being profiled, with        *)
(* vectors of the right and of the wrong length, next to the score calls   *)
(* of that profile and of a profile that has no data.  A training task is  *)
(* handed over when the earlier ones have returned.                        *)
(***************************************************************************)
InitData == InitWith({NoPool, Pool(NearReady), Pool(NearReadyNoMouseOnly)})

NextData ==
  \/ \E r \in {MouseOnly, Short} :
       /\ Appended(primary["p1"]) < MaxAppend
       /\ SchedulesTraining("p1", r) => AllDone("p1")
       /\ train_user_data("p1", r)
  \/ \E t \in TaskIds : TrainStep("p1", t)
  \/ score_user_data("p1")
  \/ \E v \in {MouseOnly, Short} : ScoreBegin("p1", v, [mt \in ModelTypes |-> 1])
  \/ ScoreBegin("p2", MouseOnly, [mt \in ModelTypes |-> 1])
  \/ \E p \in Profiles : ScoreStep(p)

SpecData == InitData /\ [][NextData]_vars

(***************************************************************************)
(* SpecRetrain: retrain_model run again and again on a trained profile     *)
(* whose retraining pool has a row.  A run that fails leaves both pools as *)
(* they were, so the next run reads the same contents; a run that succeeds *)
(* empties the retraining pool, and so does a reset of the profile.        *)
(***************************************************************************)
RetrainRows == AppendRow(NearReady, MouseOnly)

\* the packages train_initial_model leaves for a primary pool of these rows
PackagesOf(rows) ==
  [mt \in ModelTypes |->
     LET n == Partition(rows)[mt]
     IN IF n < MinSpecialistSamples THEN NoFile
        ELSE [st |-> "full", gen |-> 0, thr |-> Calibrate(n), n |-> n,
              cols |-> SpecialistSubset(mt)]]

InitRetrain ==
  /\ primary = [p \in Profiles |-> IF p = "p1" THEN Pool(RetrainRows) ELSE NoPool]
  /\ retraining = [p \in Profiles |-> IF p = "p1" THEN Pool(<<Run(TypingOnly, 1)>>) ELSE NoPool]
  /\ model = [p \in Profiles |-> IF p = "p1" THEN PackagesOf(RetrainRows) ELSE NoPackages]
  /\ temp = [p \in Profiles |-> NoPackages]
  /\ tasks = [p \in Profiles |-> [t \in TaskIds |-> IdleTask]]
  /\ scorer = [p \in Profiles |-> IdleScorer]
  /\ lastDiv = [p \in Profiles |-> check_diversity(primary[p])]
  /\ response = [p \in Profiles |-> NoResponse]
  /\ users = [p \in Profiles |-> NoUser]
  /\ calib = NoCalibration
  /\ appends = [a \in AppendIds |-> IdleAppend]
  /\ extraction = NoExtraction

NextRetrain ==
  \/ start_retrain("p1")
  \/ \E t \in TaskIds : TaskStep("p1", t)
  \/ reset_biometric_profile("p1")

SpecRetrain == InitRetrain /\ [][NextRetrain]_vars

(***************************************************************************)
(* SpecFrame: every operation that reads the primary pool, one after the   *)
(* other on one profile: training samples, the initial training they       *)
(* schedule, retraining, check_diversity and score.                        *)
(***************************************************************************)
InitFrame ==
  /\ primary = [p \in Profiles |-> IF p = "p1" THEN Pool(NearReady) ELSE NoPool]
  /\ retraining = [p \in Profiles |-> IF p = "p1" THEN Pool(<<Run(TypingOnly, 1)>>) ELSE NoPool]
  /\ model = [p \in Profiles |-> NoPackages]
  /\ temp = [p \in Profiles |-> NoPackages]
  /\ tasks = [p \in Profiles |-> [t \in TaskIds |-> IdleTask]]
  /\ scorer = [p \in Profiles |-> IdleScorer]
  /\ lastDiv = [p \in Profiles |-> check_diversity(primary[p])]
  /\ response = [p \in Profiles |-> NoResponse]
  /\ users = [p \in Profiles |-> NoUser]
  /\ calib = NoCalibration
  /\ appends = [a \in AppendIds |-> IdleAppend]
  /\ extraction = NoExtraction

NextFrame ==
  \/ /\ Appended(primary["p1"]) < MaxAppend
     /\ SchedulesTraining("p1", MouseOnly) => AllDone("p1")
     /\ train_user_data("p1", MouseOnly)
  \/ /\ AllDone("p1")
     /\ start_retrain("p1")
  \/ \E t \in TaskIds : TaskStep("p1", t)
  \/ evaluate("p1")
  \/ ScoreBegin("p1", MouseOnly, [mt \in ModelTypes |-> 1])
  \/ ScoreStep("p1")

SpecFrame == InitFrame /\ [][NextFrame]_vars

(***************************************************************************)
(* SpecCalib: the calibration of a specialist on every sample of training  *)
(* scores made of a few low scores of two kinds below a bulk of equal      *)
(* scores.                                                                 *)
(***************************************************************************)
BulkSizes == {17, 20, 21, 38, 39, 40, 41, 60}

ScoreSamples ==
  {<<ScoreRun(-3, a), ScoreRun(-1, b), ScoreRun(1, c)>> :
     a \in 0..MaxOutliers, b \in 0..MaxOutliers, c \in BulkSizes}

InitCalib ==
  /\ primary = [p \in Profiles |-> NoPool]
  /\ retraining = [p \in Profiles |-> NoPool]
  /\ model = [p \in Profiles |-> NoPackages]
  /\ temp = [p \in Profiles |-> NoPackages]
  /\ tasks = [p \in Profiles |-> [t \in TaskIds |-> IdleTask]]
  /\ scorer = [p \in Profiles |-> IdleScorer]
  /\ lastDiv = [p \in Profiles |-> check_diversity(NoPool)]
  /\ response = [p \in Profiles |-> NoResponse]
  /\ users = [p \in Profiles |-> NoUser]
  /\ calib \in {[NoCalibration EXCEPT !.pc = "scores", !.scores = s] : s \in ScoreSamples}
  /\ appends = [a \in AppendIds |-> IdleAppend]
  /\ extraction = NoExtraction

NextCalib == CalibrateThreshold

SpecCalib == InitCalib /\ [][NextCalib]_vars

(***************************************************************************)
(* SpecAppend: save_features calls for one profile that has no primary     *)
(* pool yet, in every interleaving of their steps.                         *)
(***************************************************************************)
InitAppend == InitWith({NoPool})

NextAppend ==
  \/ \E a \in AppendIds : \E r \in RecKinds : save_features_exists(a, "p1", r)
  \/ \E a \in AppendIds : save_features_write(a)
  \/ \E a \in AppendIds : save_features_return(a)

SpecAppend == InitAppend /\ [][NextAppend]_vars

(***************************************************************************)
(* SpecExtract: the extraction of one session, for every combination of    *)
(* the kinds of events a session can hold.                                 *)
(***************************************************************************)
InitExtract ==
  /\ primary = [p \in Profiles |-> NoPool]
  /\ retraining = [p \in Profiles |-> NoPool]
  /\ model = [p \in Profiles |-> NoPackages]
  /\ temp = [p \in Profiles |-> NoPackages]
  /\ tasks = [p \in Profiles |-> [t \in TaskIds |-> IdleTask]]
  /\ scorer = [p \in Profiles |-> IdleScorer]
  /\ lastDiv = [p \in Profiles |-> check_diversity(NoPool)]
  /\ response = [p \in Profiles |-> NoResponse]
  /\ users = [p \in Profiles |-> NoUser]
  /\ calib = NoCalibration
  /\ appends = [a \in AppendIds |-> IdleAppend]
  /\ extraction \in {[NoExtraction EXCEPT !.pc = "payload", !.payload = pl] : pl \in Payloads}

NextExtract == Extract

SpecExtract == InitExtract /\ [][NextExtract]_vars

(***************************************************************************)
(* SpecEnroll: enrollments of both profiles with either hash, in any order *)
(* and number, next to the first training samples of p1.                   *)
(***************************************************************************)
InitEnroll == InitWith({NoPool})

NextEnroll ==
  \/ \E p \in Profiles, password_hash \in Hashes : enroll_user(p, password_hash)
  \/ \E r \in {MouseOnly, TypingOnly} :
       /\ Appended(primary["p1"]) < MaxAppend
       /\ train_user_data("p1", r)

SpecEnroll == InitEnroll /\ [][NextEnroll]_vars

(***************************************************************************)
(* Properties.                                                             *)
(***************************************************************************)
MouseActive(v) == v.avg_mouse_speed > 0

TypingActive(v) == v.typing_speed_kps > 0

\* the specialist of modality mt was on disk, whole, when the score call began
Has(sc, mt) == sc.pk[mt].st = "full"

\* the mt specialist's score of the vector is below that specialist's threshold
Below(sc, mt) == sc.s[mt] < sc.pk[mt].thr

\* C1: a package read by score, interleaved in any way with the package
\* writes of training and retraining tasks, yields a whole package (the one
\* written before or the one written after), never a partially written file.
C1_ReaderNeverSeesPartialPackage ==
  \A p \in Profiles : scorer[p].res.kind # "UnpicklingError"

C3_FailedTaskLeavesPackages ==
  [][\A p \in Profiles : \A t \in TaskIds :
       (tasks[p][t].pc # "done" /\ tasks'[p][t].pc = "done" /\ tasks'[p][t].result = "False")
         => (tasks[p][t].wrote = {} /\ ~tasks'[p][t].cleared)]_vars

\* C4: once a package write was interrupted before its rename (the fit or
\* the dump raised) and every task has ended, each package that was valid
\* before is still under its name and readable.
C4_InterruptedWriteKeepsPackage ==
  \A mt \in ModelTypes :
    (/\ AllDone("p1")
     /\ \E t \in TaskIds : tasks["p1"][t].exc \in {"fit", "dump"}
     /\ Exists(TrainedPackage(mt)))
      => model["p1"][mt].st = "full"

\* C5: with the mouse and the typing specialists trained and both indicators
\* active, score returns is_anomaly = TRUE exactly when one of the two
\* specialists' scores is below its own threshold.
C5_FusionIsLogicalOr ==
  \A p \in Profiles :
    LET sc == scorer[p]
    IN (/\ sc.pc = "done" /\ MouseActive(sc.v) /\ TypingActive(sc.v)
        /\ Has(sc, "mouse") /\ Has(sc, "typing"))
         => /\ sc.res.kind = "verdict"
            /\ sc.res.is_anomaly = (Below(sc, "mouse") \/ Below(sc, "typing"))

\* C6: for a vector with the typing indicator 0 and the mouse indicator > 0
\* no package other than the mouse package produces the verdict.
C6_MouseVectorUsesMouseOnly ==
  \A p \in Profiles :
    LET sc == scorer[p]
    IN (/\ sc.pc = "done" /\ MouseActive(sc.v) /\ ~TypingActive(sc.v)
        /\ sc.res.kind = "verdict")
         => sc.res.model_used = "mouse"

\* C7: score raises the not-trained error when no package exists for any
\* active modality of the vector, and returns a verdict when a package
\* exists for at least one active modality.
C7_NotTrainedIffNoActivePackage ==
  \A p \in Profiles :
    LET sc == scorer[p]
        some == \/ MouseActive(sc.v) /\ Has(sc, "mouse")
                \/ TypingActive(sc.v) /\ Has(sc, "typing")
    IN sc.pc = "done" => sc.res.kind = (IF some THEN "verdict" ELSE "ValueError")

\* C8: with both indicators active and the package of exactly one of the two
\* modalities on disk, score returns a verdict and is_anomaly is that
\* specialist's score against its own threshold.
C8_MissingModalityIsNeutral ==
  \A p \in Profiles : \A mt \in {"mouse", "typing"} :
    LET sc == scorer[p]
        other == IF mt = "mouse" THEN "typing" ELSE "mouse"
    IN (/\ sc.pc = "done" /\ MouseActive(sc.v) /\ TypingActive(sc.v)
        /\ Has(sc, mt) /\ ~Exists(sc.pk[other]))
         => /\ sc.res.kind = "verdict"
            /\ sc.res.is_anomaly = Below(sc, mt)

\* rows of the run-length encoded pool that are of one of the kinds in S
RECURSIVE RowsOfKinds(_, _)
RowsOfKinds(rows, S) ==
  IF rows = <<>> THEN 0
  ELSE (IF Head(rows).rec \in S THEN Head(rows).n ELSE 0) + RowsOfKinds(Tail(rows), S)

\* the scenario pool: 200 mouse-only rows, 80 typing-only rows of which 30
\* carry digraph timing, 20 rows with both indicators
Scenario == AppendRow(NearReady, MouseOnly)

ScenarioStatus ==
  [total |-> 300, keyboard |-> 100, mouse |-> 220, digraphs |-> 30, is_ready |-> TRUE]

\* C9: check_diversity counts, in the primary pool, all rows, the rows with
\* the typing indicator > 0, the rows with the mouse indicator > 0 and the
\* rows with digraph timing > 0 (a row with both indicators counts twice);
\* is_ready holds iff total >= 300, keyboard >= 50, mouse >= 150 and
\* digraphs >= 30; the 200/80/20 scenario gives 300/100/220/30 and ready.
C9_DiversityCounts ==
  \A p \in Profiles :
    LET d == check_diversity(primary[p])
        rows == primary[p].rows
    IN primary[p].exists =>
         /\ d.total = RowsOfKinds(rows, RecKinds)
         /\ d.keyboard = RowsOfKinds(rows, {TypingOnly, TypingDigraph, Both})
         /\ d.mouse = RowsOfKinds(rows, {MouseOnly, Both})
         /\ d.digraphs = RowsOfKinds(rows, {TypingDigraph})
         /\ d.is_ready = (d.total >= 300 /\ d.keyboard >= 50 /\ d.mouse >= 150
                          /\ d.digraphs >= 30)
         /\ rows = Scenario => d = ScenarioStatus

\* C9 witness: evaluate has answered for the scenario pool
C9_ScenarioEvaluated ==
  /\ primary["p1"].rows = Scenario
  /\ lastDiv["p1"] = ScenarioStatus

Digraphs(d) == IF "digraphs" \in DOMAIN d THEN d.digraphs ELSE 0

\* C10: a training-sample submission never lowers one of the four counts of
\* check_diversity, and is_ready, once TRUE, is TRUE in every later answer.
C10_CountsNeverDecrease ==
  [][\A p \in Profiles :
       LET a == check_diversity(primary[p])
           b == check_diversity(primary'[p])
       IN /\ b.total >= a.total
          /\ b.keyboard >= a.keyboard
          /\ b.mouse >= a.mouse
          /\ Digraphs(b) >= Digraphs(a)
          /\ a.is_ready => b.is_ready
          /\ lastDiv[p].is_ready => lastDiv'[p].is_ready]_vars

\* C10 witness: a sample was submitted to a ready profile and it is still ready
C10_ReadyAfterMoreSamples ==
  /\ Len_df(primary["p1"].rows) > min_samples_for_training
  /\ lastDiv["p1"].is_ready
  /\ lastDiv["p1"].total = Len_df(primary["p1"].rows)

\* C11: a check_diversity call changes no pool and no package, and a second
\* call right after it, with no write in between, returns the same status.
C11_EvaluateIsPure ==
  [][\A p \in Profiles :
       evaluate(p) =>
         /\ primary' = primary /\ retraining' = retraining
         /\ model' = model /\ temp' = temp
         /\ check_diversity(primary'[p]) = lastDiv'[p]]_vars

\* C11 witness: check_diversity has answered for a pool that has received no
\* sample since the start
C11_Evaluated ==
  /\ Len_df(primary["p1"].rows) = PresetRows
  /\ lastDiv["p1"].total = PresetRows
  /\ ~lastDiv["p1"].is_ready

\* the status with every count at zero
AllZero == [total |-> 0, keyboard |-> 0, mouse |-> 0, digraphs |-> 0, is_ready |-> FALSE]

\* C12: check_diversity for a profile without a primary pool (never
\* submitted to, or just reset) answers with total, keyboard, mouse and
\* digraphs all 0 and is_ready FALSE.
C12_AbsentPoolIsAllZero ==
  [][\A p \in Profiles :
       (evaluate(p) /\ ~primary[p].exists) => lastDiv'[p] = AllZero]_vars

\* C13: every step that appends to a retraining pool and leaves it with
\* retraining_threshold records or more (the step that reaches the size, and
\* the next append after a failed run) hands a retrain_model task over.
C13_ThresholdTriggersRetraining ==
  [][\A p \in Profiles :
       (/\ _count_samples(retraining'[p]) > _count_samples(retraining[p])
        /\ _count_samples(retraining'[p]) >= retraining_threshold)
         => \E t \in TaskIds : /\ tasks[p][t].kind = "none"
                                /\ tasks'[p][t].kind = "retrain"]_vars

\* C14: the train_user_data step that hands train_initial_model over answers
\* 200 with the status it computed, the task has not run any step at that
\* point, and no later step of a task changes the response.
C14_ResponseBeforeTraining ==
  [][\A p \in Profiles : \A t \in TaskIds :
       /\ (tasks[p][t].kind = "none" /\ tasks'[p][t].kind = "train")
            => /\ tasks'[p][t] = NewTask("train")
               /\ response'[p] = Accepted(check_diversity(primary'[p]))
               /\ response'[p].progress.is_ready
       /\ (tasks[p][t].kind # "none" /\ tasks'[p][t].pc # tasks[p][t].pc)
            => response'[p] = response[p]]_vars

\* C14 witness: the request was answered with the ready status and the
\* training it scheduled has failed since
C14_AnsweredThenFailed ==
  \E t \in TaskIds :
    /\ tasks["p1"][t].kind = "train" /\ tasks["p1"][t].result = "False"
    /\ response["p1"].code = 200
    /\ response["p1"].progress.is_ready

\* the pools and packages of a profile
ProfileFiles(p) == <<primary[p], retraining[p], model[p], temp[p]>>

\* everything the model keeps for a profile
ProfileState(p) == <<ProfileFiles(p), tasks[p], scorer[p], lastDiv[p], response[p], users[p]>>

\* a step of an operation on profile a
OperationOn(a) ==
  \/ train_user_data(a, MouseOnly)
  \/ append_retraining(a, MouseOnly)
  \/ evaluate(a)
  \/ reset_biometric_profile(a)
  \/ start_retrain(a)
  \/ \E t \in TaskIds : TaskStep(a, t)
  \/ ScoreBegin(a, MouseOnly, [mt \in ModelTypes |-> 1])
  \/ ScoreStep(a)

\* C15: a step of an operation on profile a (append, evaluate, training,
\* retraining, score, reset), and any step that changes something of a,
\* leaves the pools and packages of every other profile b as they were.
C15_ProfilesAreIndependent ==
  [][\A a \in Profiles : \A b \in Profiles \ {a} :
       \/ ProfileFiles(b)' = ProfileFiles(b)
       \/ ~(ProfileState(a)' # ProfileState(a) \/ OperationOn(a))]_vars

\* C15 witness: p1 was reset and a task of p1 has failed while p2 still has
\* the pool and the packages it started with
C15_OtherProfileIntact ==
  /\ response["p1"] = NoContent
  /\ \E t \in TaskIds : tasks["p1"][t].result = "False"
  /\ primary["p2"] = Pool(TrainedRows)
  /\ model["p2"]["mouse"] = TrainedPackage("mouse")

\* C16: right after reset_biometric_profile(p) both pools of p count 0, no
\* package of p exists, check_diversity is all-zero, score finds no package
\* for any vector, and the users row of p is what it was.
C16_ResetWipesProfileOnly ==
  [][\A p \in Profiles :
       reset_biometric_profile(p) =>
         /\ _count_samples(primary'[p]) = 0
         /\ _count_samples(retraining'[p]) = 0
         /\ \A mt \in ModelTypes : ~Exists(model'[p][mt])
         /\ check_diversity(primary'[p]) = AllZero
         /\ users'[p] = users[p]]_vars

\* the effect of one save_features call on a pool: the pool exists after it,
\* has one record more, and the call returns the count before plus one
AppendsOne(before, after, r) ==
  /\ after.exists
  /\ after.rows = AppendRow(before.rows, r)
  /\ Len_df(after.rows) = Len_df(before.rows) + 1
  /\ _count_samples(after) = _count_samples(before) + 1
  /\ save_features(before, r) = _count_samples(after)
  /\ before = HeaderOnly => save_features(before, r) = 1

\* C17: save_features on either pool creates the pool if absent, adds one
\* record and returns the count before the call plus one; _count_samples of
\* an absent pool is 0; the first append after a truncation returns 1.
C17_AppendReturnsNewCount ==
  [][\A p \in Profiles : \A r \in RecKinds :
       /\ train_user_data(p, r) => AppendsOne(primary[p], primary'[p], r)
       /\ append_retraining(p, r) => AppendsOne(retraining[p], retraining'[p], r)
       /\ ~primary'[p].exists => _count_samples(primary'[p]) = 0
       /\ ~retraining'[p].exists => _count_samples(retraining'[p]) = 0]_vars

\* C17 witness: a retraining run has truncated the pool and one record was
\* appended to it since
C17_AppendedAfterTruncation ==
  /\ \E t \in TaskIds : tasks["p1"][t].cleared
  /\ retraining["p1"].hdr = 1
  /\ _count_samples(retraining["p1"]) = 1

\* C18: a submission whose save_features raised is answered 500 and adds no
\* record; a submission answered 200 has added its record to the pool.
C18_AppendFailurePropagates ==
  [][\A p \in Profiles :
       /\ (\E r \in RecKinds : train_user_data_OSError(p, r))
            => /\ response'[p] = InternalError
               /\ primary'[p].rows = primary[p].rows
       /\ (response'[p] # response[p] /\ response'[p].code = 200)
            => /\ _count_samples(primary'[p]) = _count_samples(primary[p]) + 1
               /\ response'[p].progress.total = _count_samples(primary'[p])]_vars

\* C18 witness: the first submission of a profile failed after the header
\* was written and was answered 500
C18_FailedSubmissionAnswered500 ==
  /\ response["p1"] = InternalError
  /\ primary["p1"] = HeaderOnly

\* C19: train_initial_model that finds the primary pool missing or without
\* records returns False at once, having written no package; a specialist
\* whose subset has fewer than 20 rows is skipped: no exception, no package
\* of the profile changed, and the task goes on to the next specialist.
C19_EmptyPoolFailsSmallSubsetSkipped ==
  [][\A p \in Profiles : \A t \in TaskIds :
       /\ (/\ tasks[p][t].kind = "train" /\ tasks[p][t].pc = "read"
            /\ tasks'[p][t].pc # "read"
            /\ _count_samples(primary[p]) = 0)
            => /\ tasks'[p][t].pc = "done" /\ tasks'[p][t].result = "False"
               /\ model'[p] = model[p]
       /\ (/\ tasks[p][t].pc = "fit" /\ tasks'[p][t] # tasks[p][t]
            /\ tasks[p][t].n[CurrentType(tasks[p][t])] < MinSpecialistSamples)
            => /\ tasks'[p][t].exc = "none"
               /\ model'[p] = model[p]
               /\ tasks'[p][t].pc \in {"fit", "trunc", "done"}]_vars

\* C20: the mouse specialist of a training or retraining task is fitted on
\* the rows with avg_mouse_speed > 0 and the typing specialist on the rows
\* with typing_speed_kps > 0, rows with both indicators counting for both.
C20_SubsetsOverlap ==
  [][\A p \in Profiles : \A t \in TaskIds :
       (tasks[p][t].pc = "read" /\ tasks'[p][t].pc = "fit") =>
         LET df == IF tasks[p][t].kind = "train" THEN primary[p].rows
                   ELSE ConcatRows(primary[p].rows, retraining[p].rows)
         IN /\ tasks'[p][t].n["mouse"] = CountPositive(df, "avg_mouse_speed")
            /\ tasks'[p][t].n["typing"] = CountPositive(df, "typing_speed_kps")]_vars

\* the background tasks of profile p between their start and their return
Running(p) == {t \in TaskIds : tasks[p][t].pc \notin {"idle", "done"}}

\* the package task t has fitted for the specialist it is working on
OwnPackage(task, t) ==
  [st |-> "full", gen |-> t, thr |-> Calibrate(task.n[CurrentType(task)]),
   n |-> task.n[CurrentType(task)], cols |-> SpecialistSubset(CurrentType(task))]

\* C21: a profile has one package per modality and the modalities are mouse
\* and typing; a package write that completes replaces the package of its
\* modality, so that from then on readers find the package that write made.
C21_OnePackagePerModality ==
  [][\A p \in Profiles : \A t \in TaskIds :
       (tasks[p][t].pc = "rename" /\ tasks'[p][t].pc # "rename"
          /\ tasks'[p][t].exc = "none")
         => /\ CurrentType(tasks[p][t]) \in {"mouse", "typing"}
            /\ model'[p][CurrentType(tasks[p][t])] = OwnPackage(tasks[p][t], t)]_vars

\* C30: two tasks of one profile are never in progress together, and the
\* rename of a package never publishes a file another writer has not
\* finished.
C30_OneTaskAtATime ==
  \A p \in Profiles :
    /\ Cardinality(Running(p)) <= 1
    /\ \A mt \in ModelTypes : model[p][mt].st \in {"none", "full"}

\* C22: a vector whose number of values differs from the number of columns
\* of the schema is turned down by the append and by score: no pool ever
\* holds such a vector and no such vector gets a verdict.
C22_WrongLengthRejected ==
  \A p \in Profiles :
    /\ \A i \in 1..Len(primary[p].rows) : ~WrongLength(primary[p].rows[i].rec)
    /\ \A i \in 1..Len(retraining[p].rows) : ~WrongLength(retraining[p].rows[i].rec)
    /\ WrongLength(scorer[p].v) => scorer[p].res.kind # "verdict"

\* the profile had no package at all when the score call began
NotTrained(sc) == \A mt \in ModelTypes : sc.pk[mt].st = "none"

\* C23: a score call for a vector of the wrong length ends differently from
\* a score call for a profile that is not trained yet.
C23_DataErrorIsNotNotReady ==
  \A p, q \in Profiles :
    (/\ scorer[p].pc = "done" /\ WrongLength(scorer[p].v) /\ ~NotTrained(scorer[p])
     /\ scorer[q].pc = "done" /\ ~WrongLength(scorer[q].v) /\ NotTrained(scorer[q]))
      => scorer[p].res.kind # scorer[q].res.kind

C28_TrainingOnlyWhenReady ==
  [][\A p \in Profiles :
       /\ (\E t \in TaskIds : tasks[p][t].kind = "none" /\ tasks'[p][t].kind # "none")
            => (response'[p].code = 200 /\ response'[p].progress.is_ready)
       /\ ~check_diversity(primary'[p]).is_ready
            => \A mt \in ModelTypes : ~Exists(model'[p][mt]) /\ ~Exists(temp'[p][mt])]_vars

\* a sample was accepted with is_ready = false and no task was handed over
C28_NotReadyNothingScheduled ==
  /\ response["p1"].code = 200
  /\ ~response["p1"].progress.is_ready
  /\ _count_samples(primary["p1"]) > 0
  /\ Scheduled("p1") = {}

\* C29: once train_initial_model has returned True for a profile, no later
\* training sample of that profile schedules the initial training again.
C29_NoTrainingAfterSuccess ==
  [][\A p \in Profiles :
       (\E t \in TaskIds : tasks[p][t].kind = "train" /\ tasks[p][t].result = "True")
         => \A t \in TaskIds : tasks'[p][t].kind = tasks[p][t].kind]_vars

C27_PrimaryPoolAppendOnly ==
  [][\A p \in Profiles :
       /\ primary'[p] # primary[p]
            => \E r \in RecKinds : primary'[p] = save_features_file(primary[p], r)
       /\ (\/ \E t \in TaskIds : tasks[p][t].kind # "none" /\ tasks'[p][t] # tasks[p][t]
           \/ scorer'[p] # scorer[p]
           \/ (lastDiv'[p] # lastDiv[p] /\ response'[p] = response[p]))
            => primary'[p] = primary[p]]_vars

\* a retraining run has returned True and the primary pool still holds the
\* rows it started with and the rows appended since
C27_RetrainedPoolIntact ==
  /\ \E t \in TaskIds : tasks["p1"][t].kind = "retrain" /\ tasks["p1"][t].result = "True"
  /\ primary["p1"].rows = AppendRow(AppendRow(NearReady, MouseOnly), MouseOnly)

\* C24: the threshold of a specialist trained on n >= 20 rows is the 5th
\* percentile of the scores of its own training rows, and the training rows
\* whose score is strictly below it are at most 5% of n, rounded up.
C24_ThresholdFlagsFivePercent ==
  calib.pc = "done" =>
    /\ CountScores(calib.scores) >= MinSpecialistSamples
    /\ calib.threshold = percentile(calib.scores, THRESHOLD_PERCENTILE)
    /\ 20 * CountBelow(calib.scores, calib.threshold) <= CountScores(calib.scores) + 19

\* 40 training rows calibrated, the two lowest of them below the threshold
C24_TwoOfFortyBelow ==
  /\ calib.pc = "done"
  /\ CountScores(calib.scores) = 40
  /\ CountBelow(calib.scores, calib.threshold) = 2

\* C31: no record is lost by retraining: when a retrain_model run empties
\* the retraining pool, every record the pool holds at that moment is among
\* the rows the run has fitted its packages on (counted on the mouse-only
\* rows, which are the rows that arrive in SpecPkg, for a run whose mouse
\* package is the one on disk).
C31_NoSampleLostByRetraining ==
  [][\A p \in Profiles : \A t \in TaskIds :
       (/\ tasks[p][t].pc = "trunc" /\ tasks'[p][t].pc = "done"
        /\ model[p]["mouse"].gen = t /\ model[p]["mouse"].st = "full")
         => model[p]["mouse"].n
              >= CountWhere(ConcatRows(primary[p].rows, retraining[p].rows), 1, 0)]_vars

\* the save_features calls that have written their row
Written == {a \in AppendIds : appends[a].pc \in {"count", "done"}}

\* C32: whatever the interleaving of the appends to one pool, the first
\* appends included, the pool holds one header and one record per append
\* that has written, and the count is that number of records.
C32_ConcurrentAppendsKeepOneHeader ==
  primary["p1"].exists =>
    /\ primary["p1"].hdr = 1
    /\ Len_df(primary["p1"].rows) = Cardinality(Written)
    /\ _count_samples(primary["p1"]) = Cardinality(Written)

\* C33: no step of score, whether the call ends with a verdict or with the
\* error of a profile that is not trained, changes a pool or a package of
\* any profile.
C33_ScoreIsReadOnly ==
  [][(\E p \in Profiles : scorer'[p] # scorer[p])
       => /\ primary' = primary
          /\ retraining' = retraining
          /\ model' = model
          /\ temp' = temp]_vars

\* a score call has returned a verdict and the pools hold what they held
\* before any request
C33_ScoredPoolsIntact ==
  /\ scorer["p1"].pc = "done"
  /\ scorer["p1"].res.kind = "verdict"
  /\ ~scorer["p1"].res.is_anomaly
  /\ retraining["p1"] = Pool(<<Run(TypingOnly, 1)>>)

\* C34: every column name the manager uses (the two activity indicators,
\* the digraph column, the mouse and the typing feature subsets) names a
\* value of the extractor's vector, and the extractor returns as many values
\* as it has names for every session, a session without events included.
C34_ManagerNamesInSchema ==
  /\ ManagerNames \subseteq {ExtractorSchema[i] : i \in DOMAIN ExtractorSchema}
  /\ extraction.pc = "done" => Len(extraction.feature_vector) = Len(ExtractorSchema)

\* C35: whenever score returns a verdict, the columns it passed to the
\* detector are the columns the detector of the package it loaded was fitted
\* on, whether the package is the one the vector was routed to or the mixed
\* package of the fallback.
C35_ScoredOnFittedSubset ==
  \A p \in Profiles :
    (scorer[p].pc = "done" /\ scorer[p].res.kind = "verdict")
      => scorer[p].res.columns = scorer[p].res.fitted

\* a mouse-only vector scored by the mixed package of the fallback
C35_FallbackScoredOnAllColumns ==
  /\ scorer["p1"].pc = "done"
  /\ scorer["p1"].res.kind = "verdict"
  /\ Route(scorer["p1"].v) = "mouse"
  /\ scorer["p1"].res.model_used = "mixed"
  /\ scorer["p1"].res.fitted = "all_feature_names"

====
